---- MODULE Spec2Model ----
(***************************************************************************)
(* FIRE Strategy Analyzer (fire.py, app.py).                               *)
(*                                                                         *)
(* The engine functions (years_until, grow_balance, fv_annuity, project,   *)
(* required, the strategy evaluators, monte_carlo) and the top-level       *)
(* statements of the two scripts that use them.  Python numbers are        *)
(* modelled as exact rationals [n, d] in lowest terms with d > 0; a        *)
(* division by zero is the ZeroDivisionError Python raises for both int    *)
(* and float operands.  A function that can raise returns a record with a  *)
(* field "raised".                                                         *)
(***************************************************************************)
EXTENDS Integers, Sequences, FiniteSets, TLC

(***************************************************************************)
(* Bounds of the model.                                                    *)
(***************************************************************************)
MaxYears == 1
MaxTrials == 2
MaxHorizon == 2

(***************************************************************************)
(* Rational arithmetic (Python int / float arithmetic, without rounding).  *)
(***************************************************************************)
Abs(x) == IF x < 0 THEN -x ELSE x

RECURSIVE GCD(_, _)
GCD(a, b) == IF b = 0 THEN a ELSE GCD(b, a % b)

Rat(n, d) ==
    LET s == IF d < 0 THEN -1 ELSE 1
        g == GCD(Abs(n), Abs(d))
    IN  [n |-> (s * n) \div g, d |-> (s * d) \div g]

Num(k) == [n |-> k, d |-> 1]

RAdd(a, b) == Rat(a.n * b.d + b.n * a.d, a.d * b.d)
RSub(a, b) == Rat(a.n * b.d - b.n * a.d, a.d * b.d)
RMul(a, b) == Rat(a.n * b.n, a.d * b.d)
\* a / b, defined for b # 0 only; every use is guarded by IsZero(b)
RDiv(a, b) == Rat(a.n * b.d, a.d * b.n)
IsZero(a) == a.n = 0
RLe(a, b) == a.n * b.d <= b.n * a.d
RLt(a, b) == a.n * b.d < b.n * a.d
RGe(a, b) == RLe(b, a)
RGt(a, b) == RLt(b, a)
RMin(a, b) == IF RLe(a, b) THEN a ELSE b

RECURSIVE RPow(_, _)
\* a ** k for an integer k
RPow(a, k) ==
    IF k = 0 THEN Num(1)
    ELSE IF k < 0 THEN RDiv(Num(1), RPow(a, -k))
    ELSE RMul(a, RPow(a, k - 1))

RECURSIVE SumOver(_, _)
\* sum(mapping.values())
SumOver(f, keys) ==
    IF keys = {} THEN 0
    ELSE LET k == CHOOSE x \in keys : TRUE
         IN  f[k] + SumOver(f, keys \ {k})

(***************************************************************************)
(* Helper functions                                                        *)
(***************************************************************************)
\* years_until without the clamp at 0
years_until_unclamped(target, current) == target - current

years_until(target, current) ==
    IF target - current > 0 THEN target - current ELSE 0

grow_balance(balance, years, r) ==
    RMul(balance, RPow(RAdd(Num(1), r), years))

fv_annuity(contrib, years, r) ==
    IF years <= 0 THEN [raised |-> FALSE, value |-> Num(0)]
    ELSE IF IsZero(r) THEN [raised |-> TRUE, value |-> Num(0)]
    ELSE [raised |-> FALSE,
          value |-> RMul(contrib,
                         RDiv(RSub(RPow(RAdd(Num(1), r), years), Num(1)), r))]

project(inp) ==
    LET yrs == years_until(inp.target_retire_age, inp.current_age)
        total_now == SumOver(inp.balances, DOMAIN inp.balances)
        grown_now == grow_balance(Num(total_now), yrs, inp.real_return)
        annual_contrib == SumOver(inp.contributions, DOMAIN inp.contributions)
        fv_contribs == fv_annuity(Num(annual_contrib), yrs, inp.real_return)
    IN  [raised |-> fv_contribs.raised,
         years |-> yrs,
         total_now |-> total_now,
         nest_egg |-> IF fv_contribs.raised THEN Num(0)
                      ELSE RAdd(grown_now, fv_contribs.value),
         annual_contrib |-> annual_contrib]

required(inp) ==
    LET yrs == years_until(inp.target_retire_age, inp.current_age)
        spend == RMul(Num(inp.desired_retirement_expenses),
                      RPow(RAdd(Num(1), inp.inflation_rate), yrs))
    IN  IF IsZero(inp.safe_withdrawal_rate)
        THEN [raised |-> TRUE, spend_at_ret |-> spend, required |-> Num(0)]
        ELSE [raised |-> FALSE, spend_at_ret |-> spend,
              required |-> RDiv(spend, inp.safe_withdrawal_rate)]

\* the value of inputs["balances"]["taxable_investments"] + inputs["balances"]["cash_emergency"]
TaxableAvail(inp) ==
    Num(inp.balances.taxable_investments + inp.balances.cash_emergency)

\* the value of inputs["balances"]["traditional_401k"] + inputs["balances"]["traditional_ira"]
PreTaxTotal(inp) ==
    Num(inp.balances.traditional_401k + inp.balances.traditional_ira)

\* the result of a strategy function whose call raised
RaisedStrategy ==
    [raised |-> TRUE, coverage |-> Num(0), years |-> Num(0), status |-> ""]

(***************************************************************************)
(* app.py's strategy functions (also defined, unused, in fire.py); the     *)
(* dict they return is the record [coverage, years, status] with           *)
(* coverage = "Coverage %", years = "Years Covered", status = "Status".    *)
(***************************************************************************)
roth_ladder(inp) ==
    LET req == required(inp)
        spend == req.spend_at_ret
        need == RMul(spend, Num(inp.taxable_bridge_years_required))
        avail == TaxableAvail(inp)
    IN  IF req.raised THEN RaisedStrategy
        ELSE [raised |-> FALSE,
              coverage |-> IF RGt(need, Num(0))
                           THEN RMin(Num(1), RDiv(avail, need)) ELSE Num(1),
              years |-> IF RGt(spend, Num(0)) THEN RDiv(avail, spend) ELSE Num(0),
              status |-> IF RGe(avail, need) THEN "OK" ELSE "SHORT"]

sepp_72t(inp) ==
    LET pre_tax_total == PreTaxTotal(inp)
        annual_withdraw == RMul(Rat(4, 100), pre_tax_total)
        req == required(inp)
        spend == req.spend_at_ret
    IN  IF req.raised THEN RaisedStrategy
        ELSE [raised |-> FALSE,
              coverage |-> IF RGt(spend, Num(0))
                           THEN RMin(Num(1), RDiv(annual_withdraw, spend))
                           ELSE Num(0),
              years |-> IF RGt(spend, Num(0))
                        THEN RMul(RDiv(annual_withdraw, spend), Num(30))
                        ELSE Num(0),
              status |-> IF RGe(annual_withdraw, spend) THEN "OK" ELSE "SHORT"]

\* taxable_first drawing on taxable_investments only, cash_emergency left out
taxable_first_no_cash(inp) ==
    LET taxable_total == Num(inp.balances.taxable_investments)
        req == required(inp)
        spend == req.spend_at_ret
        years_covered == IF RGt(spend, Num(0)) THEN RDiv(taxable_total, spend)
                         ELSE Num(0)
    IN  IF req.raised THEN RaisedStrategy
        ELSE [raised |-> FALSE,
              coverage |-> RMin(Num(1), RDiv(years_covered, Num(5))),
              years |-> years_covered,
              status |-> IF RGe(years_covered, Num(5)) THEN "OK" ELSE "SHORT"]

taxable_first(inp) ==
    LET taxable_total == TaxableAvail(inp)
        req == required(inp)
        spend == req.spend_at_ret
        years_covered == IF RGt(spend, Num(0)) THEN RDiv(taxable_total, spend)
                         ELSE Num(0)
    IN  IF req.raised THEN RaisedStrategy
        ELSE [raised |-> FALSE,
              coverage |-> RMin(Num(1), RDiv(years_covered, Num(5))),
              years |-> years_covered,
              status |-> IF RGe(years_covered, Num(5)) THEN "OK" ELSE "SHORT"]

(***************************************************************************)
(* fire.py's strategy functions; the tuple (coverage, years, status) they  *)
(* return is the record [coverage, years, status].                         *)
(***************************************************************************)
strategy_roth_ladder(inp) ==
    LET req == required(inp)
        spend == req.spend_at_ret
        need == RMul(spend, Num(inp.taxable_bridge_years_required))
        avail == TaxableAvail(inp)
    IN  IF req.raised THEN RaisedStrategy
        ELSE [raised |-> FALSE,
              coverage |-> IF RGt(need, Num(0)) THEN RDiv(avail, need) ELSE Num(0),
              years |-> IF RGt(spend, Num(0)) THEN RDiv(avail, spend) ELSE Num(0),
              status |-> IF RGe(avail, need) THEN "OK" ELSE "SHORT"]

strategy_sepp(inp) ==
    LET req == required(inp)
        spend == req.spend_at_ret
        balance == PreTaxTotal(inp)
        sepp_income == RDiv(balance, Num(30))
    IN  IF req.raised THEN RaisedStrategy
        \* coverage = sepp_income / spend is not guarded
        ELSE IF IsZero(spend) THEN RaisedStrategy
        ELSE [raised |-> FALSE,
              coverage |-> RDiv(sepp_income, spend),
              years |-> IF RGt(spend, Num(0)) THEN RDiv(balance, spend) ELSE Num(0),
              status |-> IF RGe(sepp_income, spend) THEN "OK" ELSE "SHORT"]

strategy_taxable_drawdown(inp) ==
    LET req == required(inp)
        spend == req.spend_at_ret
        avail == TaxableAvail(inp)
        years == IF RGt(spend, Num(0)) THEN RDiv(avail, spend) ELSE Num(0)
    IN  IF req.raised THEN RaisedStrategy
        ELSE [raised |-> FALSE,
              coverage |-> IF RGt(spend, Num(0)) THEN RDiv(avail, spend) ELSE Num(0),
              years |-> years,
              status |-> IF RGe(years, Num(5)) THEN "OK" ELSE "SHORT"]

\* status = "ON TRACK" if proj["nest_egg"] >= reqs["required"]*inputs["safety_margin"] else "UNDER-SAVING"
OverallStatus(p, r, inp) ==
    IF RGe(p.nest_egg, RMul(r.required, inp.safety_margin))
    THEN "ON TRACK" ELSE "UNDER-SAVING"

(***************************************************************************)
(* The inputs record and the sets its fields are drawn from.               *)
(***************************************************************************)
CurrentAge == 30
TargetAges == (CurrentAge - 1) .. (CurrentAge + MaxYears)
Rates == {Num(0), Rat(1, 10)}
WithdrawalRates == {Rat(-1, 20), Num(0), Rat(1, 20)}
Expenses == {0, 1, 2}
BridgeYears == {0, 1, 5}
Balances(t401k, tira, roth, hsa, taxable, cash) ==
    [traditional_401k |-> t401k, traditional_ira |-> tira, roth_ira |-> roth,
     hsa |-> hsa, taxable_investments |-> taxable, cash_emergency |-> cash]
BalanceSpace ==
    { Balances(0, 0, 0, 0, 0, 0),
      Balances(25, 2, 0, 3, 5, 1),
      Balances(60, 0, 4, 0, 0, 0),
      Balances(0, 0, 1, 0, 9, 2) }
Contributions(pre401k, roth401k, roth, hsa, taxable, cash, match) ==
    [pre_tax_401k |-> pre401k, roth_401k |-> roth401k, roth_ira |-> roth,
     hsa |-> hsa, taxable_investments |-> taxable, cash_savings |-> cash,
     employer_match |-> match]
ContributionSpace ==
    { Contributions(0, 0, 0, 0, 0, 0, 0),
      Contributions(2, 0, 0, 0, 0, 0, 1) }
InputSpace ==
    [current_age : {CurrentAge},
     target_retire_age : TargetAges,
     desired_retirement_expenses : Expenses,
     inflation_rate : Rates,
     balances : BalanceSpace,
     contributions : ContributionSpace,
     real_return : Rates,
     safe_withdrawal_rate : WithdrawalRates,
     taxable_bridge_years_required : BridgeYears,
     safety_margin : {Rat(9, 10)}]

\* the values np.random.normal may return that the model draws from
ReturnSamples == {Num(-1), Rat(1, 2)}

\* the arguments monte_carlo is called with when it is called directly
TrialsArgs == (-1) .. MaxTrials
HorizonArgs == (-1) .. MaxHorizon

VARIABLES
    inputs,       \* the inputs dict
    file,         \* "fire" / "app": the script that runs; "" : monte_carlo called directly
    pc,           \* the statement to execute next
    err,          \* "none", or the exception that ended the run at statement pc
    proj, reqs,   \* proj = project(inputs), reqs = required(inputs)
    mc_prob,      \* the value monte_carlo returned
    trials, horizon,                           \* monte_carlo's arguments
    start, annual_spend, success, trial, yr, bal,  \* monte_carlo's locals
    draws,        \* number of samples taken from np.random
    ladder, sepp, taxable_first_result,        \* the three strategy results
    strategies,   \* the list of strategy records
    status        \* the overall status

vars == <<inputs, file, pc, err, proj, reqs, mc_prob, trials, horizon, start,
          annual_spend, success, trial, yr, bal, draws, ladder, sepp,
          taxable_first_result, strategies, status>>

mcLocals == <<start, annual_spend, success, trial, yr, bal>>
mcVars == <<trials, horizon, start, annual_spend, success, trial, yr, bal, draws>>
stratVars == <<ladder, sepp, taxable_first_result, strategies>>

NoStrategy ==
    [raised |-> FALSE, coverage |-> Num(0), years |-> Num(0), status |-> ""]
NoProj ==
    [raised |-> FALSE, years |-> 0, total_now |-> 0, nest_egg |-> Num(0),
     annual_contrib |-> 0]
NoReqs == [raised |-> FALSE, spend_at_ret |-> Num(0), required |-> Num(0)]

Init ==
    /\ inputs \in InputSpace
    /\ file = ""
    /\ pc = "start"
    /\ err = "none"
    /\ proj = NoProj
    /\ reqs = NoReqs
    /\ mc_prob = Num(0)
    /\ trials = 0 /\ horizon = 0
    /\ start = Num(0) /\ annual_spend = Num(0)
    /\ success = 0 /\ trial = 0 /\ yr = 0 /\ bal = Num(0)
    /\ draws = 0
    /\ ladder = NoStrategy /\ sepp = NoStrategy
    /\ taxable_first_result = NoStrategy
    /\ strategies = <<>>
    /\ status = ""

\* an uncaught exception ends the run at the statement that raised it
Raise == err' = "ZeroDivisionError"

\* the script starts: fire.py or app.py
RunScript ==
    /\ pc = "start" /\ err = "none"
    /\ \E f \in {"fire", "app"} : file' = f
    /\ pc' = "L_project"
    /\ UNCHANGED <<inputs, err, proj, reqs, mc_prob, mcVars, stratVars, status>>

\* proj = project(inputs)
Line_project ==
    /\ pc = "L_project" /\ err = "none"
    /\ LET p == project(inputs)
       IN  IF p.raised
           THEN Raise /\ UNCHANGED <<pc, proj>>
           ELSE proj' = p /\ pc' = "L_required" /\ UNCHANGED err
    /\ UNCHANGED <<inputs, file, reqs, mc_prob, mcVars, stratVars, status>>

\* reqs = required(inputs)
Line_required ==
    /\ pc = "L_required" /\ err = "none"
    /\ LET r == required(inputs)
       IN  IF r.raised
           THEN Raise /\ UNCHANGED <<pc, reqs>>
           ELSE reqs' = r /\ pc' = "L_monte_carlo" /\ UNCHANGED err
    /\ UNCHANGED <<inputs, file, proj, mc_prob, mcVars, stratVars, status>>

(***************************************************************************)
(* monte_carlo(inputs, trials, horizon)                                    *)
(***************************************************************************)
\* entry: start = project(inputs)["nest_egg"]; spend = required(inputs)["spend_at_ret"];
\* annual_spend = spend; success = 0
MCEnter(t, h) ==
    /\ trials' = t /\ horizon' = h
    /\ LET p == project(inputs)
           r == required(inputs)
       IN  IF p.raised \/ r.raised
           THEN /\ Raise /\ pc' = "mc_enter"
                /\ UNCHANGED <<start, annual_spend>>
           ELSE /\ start' = p.nest_egg
                /\ annual_spend' = r.spend_at_ret
                /\ pc' = "mc_trial"
                /\ UNCHANGED err
    /\ success' = 0 /\ trial' = 0
    /\ UNCHANGED <<yr, bal, draws>>

\* mc_prob = monte_carlo(inputs, trials=500): the defaults trials=500, horizon=40
\* are capped at MaxTrials and MaxHorizon
Line_monte_carlo ==
    /\ pc = "L_monte_carlo" /\ err = "none"
    /\ MCEnter(MaxTrials, MaxHorizon)
    /\ UNCHANGED <<inputs, file, proj, reqs, mc_prob, stratVars, status>>

\* monte_carlo(inputs, trials, horizon) called on its own
CallMonteCarlo ==
    /\ pc = "start" /\ err = "none"
    /\ \E t \in TrialsArgs, h \in HorizonArgs : MCEnter(t, h)
    /\ UNCHANGED <<inputs, file, proj, reqs, mc_prob, stratVars, status>>

\* for _ in range(trials): bal = start
MCNextTrial ==
    /\ pc = "mc_trial" /\ err = "none"
    /\ trial < trials
    /\ trial' = trial + 1
    /\ bal' = start
    /\ yr' = 0
    /\ pc' = "mc_year"
    /\ UNCHANGED <<inputs, file, err, proj, reqs, mc_prob, trials, horizon,
                   start, annual_spend, success, draws, stratVars, status>>

\* the year step without the break on bal <= 0
MCYear_NoBreak ==
    /\ pc = "mc_year" /\ err = "none"
    /\ yr < horizon
    /\ \E r \in ReturnSamples :
          bal' = RSub(RMul(bal, RAdd(Num(1), r)), annual_spend)
    /\ draws' = draws + 1
    /\ yr' = yr + 1
    /\ pc' = "mc_year"
    /\ UNCHANGED <<inputs, file, err, proj, reqs, mc_prob, trials, horizon,
                   start, annual_spend, success, trial, stratVars, status>>

\* for yr in range(horizon): r = np.random.normal(...); bal *= (1 + r);
\* bal -= annual_spend; if bal <= 0: break
MCYear ==
    /\ pc = "mc_year" /\ err = "none"
    /\ yr < horizon
    /\ \E r \in ReturnSamples :
          bal' = RSub(RMul(bal, RAdd(Num(1), r)), annual_spend)
    /\ draws' = draws + 1
    /\ yr' = yr + 1
    /\ pc' = IF RLe(bal', Num(0)) THEN "mc_trial" ELSE "mc_year"
    /\ UNCHANGED <<inputs, file, err, proj, reqs, mc_prob, trials, horizon,
                   start, annual_spend, success, trial, stratVars, status>>

\* the inner loop ran out without break: else: success += 1
MCSurvived ==
    /\ pc = "mc_year" /\ err = "none"
    /\ yr >= horizon
    /\ success' = success + 1
    /\ pc' = "mc_trial"
    /\ UNCHANGED <<inputs, file, err, proj, reqs, mc_prob, trials, horizon,
                   start, annual_spend, trial, yr, bal, draws, stratVars, status>>

\* return success / trials
MCReturn ==
    /\ pc = "mc_trial" /\ err = "none"
    /\ trial >= trials
    /\ IF trials = 0
       THEN Raise /\ pc' = "mc_return" /\ UNCHANGED <<mc_prob, mcLocals>>
       ELSE /\ mc_prob' = Rat(success, trials)
            /\ pc' = IF file = "" THEN "done" ELSE "L_roth"
            /\ start' = Num(0) /\ annual_spend' = Num(0) /\ success' = 0
            /\ trial' = 0 /\ yr' = 0 /\ bal' = Num(0)
            /\ UNCHANGED err
    /\ UNCHANGED <<inputs, file, proj, reqs, trials, horizon, draws,
                   stratVars, status>>

(***************************************************************************)
(* The scripts' statements after monte_carlo.  fire.py calls strategy_*    *)
(* and unpacks the tuples; app.py calls roth_ladder, sepp_72t and          *)
(* taxable_first.  Both results are held in ladder, sepp and               *)
(* taxable_first_result.                                                   *)
(***************************************************************************)
\* one call of a strategy function: store the result or end the run
StrategyLine(at, result, next) ==
    /\ pc = at /\ err = "none"
    /\ IF result.raised
       THEN Raise /\ UNCHANGED pc
       ELSE pc' = next /\ UNCHANGED err

\* coverage_rl, years_rl, status_rl = strategy_roth_ladder(inputs)
Fire_roth ==
    /\ file = "fire"
    /\ StrategyLine("L_roth", strategy_roth_ladder(inputs), "L_sepp")
    /\ ladder' = IF strategy_roth_ladder(inputs).raised THEN ladder
                 ELSE strategy_roth_ladder(inputs)
    /\ UNCHANGED <<inputs, file, proj, reqs, mc_prob, mcVars, sepp,
                   taxable_first_result, strategies, status>>

\* coverage_sepp, years_sepp, status_sepp = strategy_sepp(inputs)
Fire_sepp ==
    /\ file = "fire"
    /\ StrategyLine("L_sepp", strategy_sepp(inputs), "L_taxable")
    /\ sepp' = IF strategy_sepp(inputs).raised THEN sepp
               ELSE strategy_sepp(inputs)
    /\ UNCHANGED <<inputs, file, proj, reqs, mc_prob, mcVars, ladder,
                   taxable_first_result, strategies, status>>

\* coverage_tax, years_tax, status_tax = strategy_taxable_drawdown(inputs)
Fire_taxable ==
    /\ file = "fire"
    /\ StrategyLine("L_taxable", strategy_taxable_drawdown(inputs), "L_strategies")
    /\ taxable_first_result' =
          IF strategy_taxable_drawdown(inputs).raised THEN taxable_first_result
          ELSE strategy_taxable_drawdown(inputs)
    /\ UNCHANGED <<inputs, file, proj, reqs, mc_prob, mcVars, ladder, sepp,
                   strategies, status>>

\* ladder = roth_ladder(inputs)
App_roth ==
    /\ file = "app"
    /\ StrategyLine("L_roth", roth_ladder(inputs), "L_sepp")
    /\ ladder' = IF roth_ladder(inputs).raised THEN ladder
                 ELSE roth_ladder(inputs)
    /\ UNCHANGED <<inputs, file, proj, reqs, mc_prob, mcVars, sepp,
                   taxable_first_result, strategies, status>>

\* sepp = sepp_72t(inputs)
App_sepp ==
    /\ file = "app"
    /\ StrategyLine("L_sepp", sepp_72t(inputs), "L_taxable")
    /\ sepp' = IF sepp_72t(inputs).raised THEN sepp ELSE sepp_72t(inputs)
    /\ UNCHANGED <<inputs, file, proj, reqs, mc_prob, mcVars, ladder,
                   taxable_first_result, strategies, status>>

\* taxable_first_result = taxable_first(inputs)
App_taxable ==
    /\ file = "app"
    /\ StrategyLine("L_taxable", taxable_first(inputs), "L_status")
    /\ taxable_first_result' =
          IF taxable_first(inputs).raised THEN taxable_first_result
          ELSE taxable_first(inputs)
    /\ UNCHANGED <<inputs, file, proj, reqs, mc_prob, mcVars, ladder, sepp,
                   strategies, status>>

\* one element of the strategies list; mc is <<>> for None
StrategyRecord(name, s, mc) ==
    [Strategy |-> name, Coverage |-> s.coverage, Years |-> s.years,
     MonteCarlo |-> mc, Status |-> s.status]

\* fire.py: strategies = [{...}, {...}, {...}] with "Monte Carlo Success %": mc_prob
Fire_strategies ==
    /\ file = "fire" /\ pc = "L_strategies" /\ err = "none"
    /\ strategies' =
          << StrategyRecord("Roth Conversion Ladder", ladder, <<mc_prob>>),
             StrategyRecord("72(t) SEPP", sepp, <<mc_prob>>),
             StrategyRecord("Taxable Drawdown First", taxable_first_result,
                            <<mc_prob>>) >>
    /\ pc' = "L_status"
    /\ UNCHANGED <<inputs, file, err, proj, reqs, mc_prob, mcVars, ladder,
                   sepp, taxable_first_result, status>>

\* app.py: strategies = [ladder, sepp, taxable_first_result]
App_strategies ==
    /\ file = "app" /\ pc = "L_strategies" /\ err = "none"
    /\ strategies' =
          << StrategyRecord("Roth Conversion Ladder", ladder, <<>>),
             StrategyRecord("72(t) SEPP", sepp, <<>>),
             StrategyRecord("Taxable Drawdown First", taxable_first_result,
                            <<>>) >>
    /\ pc' = "done"
    /\ UNCHANGED <<inputs, file, err, proj, reqs, mc_prob, mcVars, ladder,
                   sepp, taxable_first_result, status>>

\* status = "ON TRACK" if ... else "UNDER-SAVING"
\* (fire.py: after the strategies list; app.py: before it)
Line_status ==
    /\ pc = "L_status" /\ err = "none"
    /\ status' = OverallStatus(proj, reqs, inputs)
    /\ pc' = IF file = "fire" THEN "done" ELSE "L_strategies"
    /\ UNCHANGED <<inputs, file, err, proj, reqs, mc_prob, mcVars, stratVars>>

Next ==
    \/ RunScript
    \/ Line_project
    \/ Line_required
    \/ Line_monte_carlo
    \/ CallMonteCarlo
    \/ MCNextTrial
    \/ MCYear
    \/ MCSurvived
    \/ MCReturn
    \/ Fire_roth
    \/ Fire_sepp
    \/ Fire_taxable
    \/ App_roth
    \/ App_sepp
    \/ App_taxable
    \/ Fire_strategies
    \/ App_strategies
    \/ Line_status

Spec == Init /\ [][Next]_vars

(***************************************************************************)
(* Where a run stands.                                                     *)
(***************************************************************************)
AfterRoth == {"L_sepp", "L_taxable", "L_strategies", "L_status", "done"}
AfterSepp == {"L_taxable", "L_strategies", "L_status", "done"}
AfterTaxable == {"L_strategies", "L_status", "done"}
AfterRequired == {"L_monte_carlo", "L_roth"} \cup AfterRoth

\* the script's call of project(inputs) has returned or raised
ProjectCalled == file # "" /\ (pc = "L_project" => err # "none")
\* the script's call of required(inputs) has returned or raised
RequiredCalled ==
    file # "" /\ (pc \in AfterRequired \/ (pc = "L_required" /\ err # "none"))
\* a direct call of monte_carlo has returned or raised
MonteCarloEnded ==
    file = "" /\ (pc = "done" \/ (pc \in {"mc_enter", "mc_return"} /\ err # "none"))
\* the script has ended, normally or with an exception
ScriptEnded == file # "" /\ (pc = "done" \/ err # "none")

Horizon == years_until(inputs.target_retire_age, inputs.current_age)
TotalContribution ==
    inputs.contributions.pre_tax_401k + inputs.contributions.roth_401k
    + inputs.contributions.roth_ira + inputs.contributions.hsa
    + inputs.contributions.taxable_investments
    + inputs.contributions.cash_savings + inputs.contributions.employer_match
\* safe_withdrawal_rate is a valid parameter
ValidRate == RGt(inputs.safe_withdrawal_rate, Num(0))
\* the parameters are valid: positive withdrawal rate and retirement expenses
ValidInputs == ValidRate /\ inputs.desired_retirement_expenses > 0
TotalBalance ==
    inputs.balances.traditional_401k + inputs.balances.traditional_ira
    + inputs.balances.roth_ira + inputs.balances.hsa
    + inputs.balances.taxable_investments + inputs.balances.cash_emergency

(***************************************************************************)
(* C1: with rate == 0 and n >= 1 years, the annuity future value is c * n  *)
(* and the computation does not raise.  Stated of the call project makes:  *)
(* fv_annuity(annual_contrib, yrs, real_return).                           *)
(***************************************************************************)
C1_ZeroRateAnnuity ==
    (ProjectCalled /\ ValidInputs /\ IsZero(inputs.real_return) /\ Horizon >= 1) =>
        /\ err = "none"
        /\ fv_annuity(Num(TotalContribution), Horizon, inputs.real_return)
              = [raised |-> FALSE, value |-> Num(TotalContribution * Horizon)]

(***************************************************************************)
(* C2: with spend_at_retirement == 0 none of the three strategy            *)
(* evaluators raises, years covered is 0 and coverage is 0 (or 1, no       *)
(* need).                                                                  *)
(***************************************************************************)
C2_ZeroSpendStrategies ==
    (file # "" /\ pc \in {"L_roth"} \cup AfterRoth /\ ValidRate
       /\ IsZero(reqs.spend_at_ret)) =>
        /\ err = "none"
        /\ pc \in AfterRoth =>
              ladder.years = Num(0) /\ ladder.coverage \in {Num(0), Num(1)}
        /\ pc \in AfterSepp =>
              sepp.years = Num(0) /\ sepp.coverage \in {Num(0), Num(1)}
        /\ pc \in AfterTaxable =>
              /\ taxable_first_result.years = Num(0)
              /\ taxable_first_result.coverage \in {Num(0), Num(1)}

(***************************************************************************)
(* C3: with taxable_bridge_years_required == 0 the Roth Conversion Ladder  *)
(* result has coverage 1 and status OK, whatever the balances.             *)
(***************************************************************************)
C3_NoBridgeNeed ==
    (file # "" /\ pc \in AfterRoth /\ ValidInputs
       /\ inputs.taxable_bridge_years_required = 0) =>
        ladder.coverage = Num(1) /\ ladder.status = "OK"

(***************************************************************************)
(* C4: with spend_at_retirement > 0 the "Coverage %" of each of the three  *)
(* records of the strategies list lies in [0, 1].                          *)
(***************************************************************************)
C4_CoverageClamped ==
    (strategies # <<>> /\ ValidInputs /\ RGt(reqs.spend_at_ret, Num(0))) =>
        \A i \in 1..Len(strategies) :
            /\ RGe(strategies[i].Coverage, Num(0))
            /\ RLe(strategies[i].Coverage, Num(1))

(***************************************************************************)
(* C5: in monte_carlo a year is simulated only while every earlier year    *)
(* of the trial left the balance > 0 (the first balance <= 0 ends the      *)
(* trial); a trial is counted as a success exactly when all horizon years  *)
(* were simulated and each left the balance > 0, and a trial that ends     *)
(* uncounted ended on a balance <= 0; the value returned is                *)
(* success / trials, in [0, 1] when trials >= 1.                           *)
(***************************************************************************)
C5_MonteCarloTrials ==
    /\ [][ (pc = "mc_year" /\ yr' = yr + 1) =>
              (yr > 0 => RGt(bal, Num(0))) ]_vars
    /\ [][ (success' = success + 1) =>
              /\ yr >= horizon
              /\ horizon >= 0 => yr = horizon
              /\ yr > 0 => RGt(bal, Num(0)) ]_vars
    /\ [][ (pc = "mc_year" /\ pc' = "mc_trial" /\ success' = success) =>
              (RLe(bal', Num(0)) /\ yr' <= horizon) ]_vars
    /\ [][ (pc = "mc_trial" /\ pc' \in {"done", "L_roth"}) =>
              /\ mc_prob' = Rat(success, trials)
              /\ trial = trials \/ trials < 0
              /\ trials >= 1 =>
                    RGe(mc_prob', Num(0)) /\ RLe(mc_prob', Num(1)) ]_vars

\* a failed trial, stopped before the horizon, after a successful one
C5_Witness ==
    /\ pc = "mc_trial" /\ trial = 2 /\ success = 1
    /\ yr >= 1 /\ yr < horizon /\ RLe(bal, Num(0))

(***************************************************************************)
(* C6: invalid parameters end in an error, never in a result: required     *)
(* with safe_withdrawal_rate <= 0, monte_carlo with trials <= 0 or         *)
(* horizon < 0.                                                            *)
(***************************************************************************)
C6_InvalidParametersRaise ==
    /\ (RequiredCalled /\ RLe(inputs.safe_withdrawal_rate, Num(0))) =>
          (pc = "L_required" /\ err # "none")
    /\ (MonteCarloEnded /\ (trials <= 0 \/ horizon < 0)) => err # "none"

(***************************************************************************)
(* C7: monte_carlo called with horizon == 0 and trials >= 1 returns        *)
(* exactly 1 and draws no sample, for every input (stated for the valid    *)
(* inputs).                                                                *)
(***************************************************************************)
C7_ZeroHorizonSurvives ==
    (MonteCarloEnded /\ ValidInputs /\ horizon = 0 /\ trials >= 1) =>
        /\ err = "none"
        /\ mc_prob = Num(1)
        /\ draws = 0

(***************************************************************************)
(* C8: for the 72(t) SEPP strategy with spend_at_retirement > 0, whichever *)
(* implementation runs: status is OK exactly when balance / 30 >= spend    *)
(* (balance / 30 being the annual payment), years covered is               *)
(* balance / spend.                                                        *)
(***************************************************************************)
C8_SeppCanonical ==
    (file # "" /\ pc \in AfterSepp /\ ValidInputs
       /\ RGt(reqs.spend_at_ret, Num(0))) =>
        /\ sepp.status =
              IF RGe(RDiv(PreTaxTotal(inputs), Num(30)), reqs.spend_at_ret)
              THEN "OK" ELSE "SHORT"
        /\ sepp.years = RDiv(PreTaxTotal(inputs), reqs.spend_at_ret)

(***************************************************************************)
(* C9: for every valid input the run ends with an overall status, which    *)
(* is ON TRACK exactly when nest egg >= required * safety_margin and       *)
(* UNDER-SAVING otherwise.                                                 *)
(***************************************************************************)
C9_OverallStatus ==
    (ScriptEnded /\ ValidInputs) =>
        /\ status \in {"ON TRACK", "UNDER-SAVING"}
        /\ status = "ON TRACK" <=>
              RGe(proj.nest_egg, RMul(reqs.required, inputs.safety_margin))

(***************************************************************************)
(* C10: the horizon is max(0, target_retire_age - current_age), never      *)
(* negative; with target_retire_age < current_age it is 0, project does    *)
(* not raise and returns the sum of the current balances as nest egg, and  *)
(* required (safe_withdrawal_rate # 0, its division being defined) does    *)
(* not raise and returns spend_at_ret = desired_retirement_expenses.       *)
(***************************************************************************)
C10_HorizonClamped ==
    LET diff == inputs.target_retire_age - inputs.current_age
        early == inputs.target_retire_age < inputs.current_age
    IN  /\ (file # "" /\ pc \in {"L_required"} \cup AfterRequired) =>
              /\ proj.years >= 0
              /\ proj.years = IF diff > 0 THEN diff ELSE 0
        /\ (ProjectCalled /\ early) =>
              /\ ~ (pc = "L_project" /\ err # "none")
              /\ proj.years = 0
              /\ proj.nest_egg = Num(TotalBalance)
        /\ (RequiredCalled /\ early /\ ~ IsZero(inputs.safe_withdrawal_rate)) =>
              /\ ~ (pc = "L_required" /\ err # "none")
              /\ reqs.spend_at_ret = Num(inputs.desired_retirement_expenses)

\* target age below current age, balances, contributions and expenses > 0,
\* project and required have both returned
C10_Witness ==
    /\ inputs.target_retire_age < inputs.current_age
    /\ file # "" /\ pc = "L_monte_carlo" /\ err = "none"
    /\ TotalBalance > 0 /\ TotalContribution > 0
    /\ inputs.desired_retirement_expenses > 0
    /\ ~ IsZero(inputs.inflation_rate) /\ ~ IsZero(inputs.real_return)

(***************************************************************************)
(* C11: the Roth ladder and the taxable drawdown results of a run draw on  *)
(* the same available funds, taxable_investments + cash_emergency, and     *)
(* report the same years covered (available / spend, 0 when spend is 0);   *)
(* with taxable_bridge_years_required == 5 and spend_at_retirement > 0     *)
(* their statuses are equal, OK exactly when available >= 5 * spend.       *)
(***************************************************************************)
C11_LadderMatchesDrawdown ==
    LET avail == Num(inputs.balances.taxable_investments
                     + inputs.balances.cash_emergency)
        spend == reqs.spend_at_ret
    IN  (file # "" /\ pc \in AfterTaxable) =>
            /\ ladder.years = taxable_first_result.years
            /\ ladder.years = IF RGt(spend, Num(0)) THEN RDiv(avail, spend)
                              ELSE Num(0)
            /\ (inputs.taxable_bridge_years_required = 5
                  /\ RGt(spend, Num(0))) =>
                  /\ ladder.status = taxable_first_result.status
                  /\ ladder.status = "OK" <=>
                        RGe(avail, RMul(Num(5), spend))

\* a five-year bridge met exactly: cash is part of the funds, both OK
C11_Witness ==
    /\ file # "" /\ pc \in AfterTaxable
    /\ inputs.taxable_bridge_years_required = 5
    /\ inputs.balances.cash_emergency > 0
    /\ RGt(reqs.spend_at_ret, Num(0))
    /\ taxable_first_result.years = Num(5)
    /\ ladder.status = "OK" /\ taxable_first_result.status = "OK"

====
